---- MODULE Spec2Model ----
(***************************************************************************)
(* Model of raspi/raspi-decawave-serial.py: the capture loop that forwards *)
(* lines from a non-blocking serial device to a file and appends a         *)
(* monotonic receive timestamp after lines that start with pointMarker.    *)
(*                                                                         *)
(* Text is modelled as a sequence of one-character strings.  The file is   *)
(* modelled as the sequence of strings handed to fh.write, each tagged     *)
(* with the statement that wrote it; SinkText flattens it to the           *)
(* characters the file holds.                                              *)
(***************************************************************************)
EXTENDS Integers, Sequences, FiniteSets, TLC

\* ---- bounds ----
MaxStream == 3      \* characters the device delivers in one run
MaxIter == 3        \* calls of forwardLine in one run
MaxClock == 1       \* largest reading of the monotonic clock in one run

\* ---- alphabet ----
NL == "\n"
Alphabet == {"R", "X", NL}
Markers == {<<>>, <<"R">>, <<"R", "X">>}
TsPrefix == "RPI_rx_ts_nanosec:"
Digits == <<"0", "1", "2", "3", "4", "5", "6", "7", "8", "9">>

VARIABLES
    pc,           \* position of the process in main / forwardLine
    pointMarker,  \* sys.argv[2]
    rx,           \* bytes the serial port has received and not yet handed out
    delivered,    \* number of characters the device has sent so far
    line,         \* local `line` of forwardLine
    systime,      \* local `systime` of forwardLine
    clock,        \* CLOCK_MONOTONIC_RAW as of its last reading
    writes,       \* what fh.write has been given, in order
    fhClosed,     \* fh.close() has been called
    stdout,       \* messages printed
    exc,          \* exception raised in the try block, or "none"
    lines,        \* history: every string sio.readline() has returned
    ioSinceRead   \* history: fh.write calls since sio.readline() last returned

vars == <<pc, pointMarker, rx, delivered, line, systime, clock, writes,
          fhClosed, stdout, exc, lines, ioSinceRead>>

\* ---- pure functions ----

\* str.startswith
startswith_nonempty(s, prefix) ==
    /\ Len(s) > 0
    /\ Len(prefix) <= Len(s)
    /\ \A i \in 1..Len(prefix) : s[i] = prefix[i]

startswith_always(s, prefix) == TRUE

startswith(s, prefix) ==
    /\ Len(prefix) <= Len(s)
    /\ \A i \in 1..Len(prefix) : s[i] = prefix[i]

\* index of the first newline of s, 0 if there is none
RECURSIVE FirstNL(_, _)
FirstNL(s, i) ==
    IF i > Len(s) THEN 0
    ELSE IF s[i] = NL THEN i
    ELSE FirstNL(s, i + 1)

\* TextIOWrapper(BufferedReader(ser)).readline() over a port opened with
\* timeout=0: the text up to and including the first newline when one has
\* been received, otherwise whatever has been received (possibly nothing),
\* because a raw read that returns no bytes ends the line like end of file.
readline(buf) ==
    IF FirstNL(buf, 1) > 0 THEN SubSeq(buf, 1, FirstNL(buf, 1)) ELSE buf

\* str(int) for a non-negative integer
RECURSIVE str(_)
str(n) ==
    IF n < 10 THEN <<Digits[n + 1]>>
    ELSE str(n \div 10) \o <<Digits[(n % 10) + 1]>>

\* "RPI_rx_ts_nanosec:" + str(systime)
TimestampRecord(t) == <<TsPrefix>> \o str(t)

\* which exceptions the except clause of main catches
HandlesAny(kind) == TRUE

HandlesException(kind) == kind = "KeyboardInterrupt"

\* exceptions that can be raised at a position of the loop
RaisedAt(p) ==
    {"KeyboardInterrupt"}
    \cup (IF p = "read" THEN {"SerialException", "UnicodeDecodeError"} ELSE {})
    \cup (IF p \in {"write_line", "write_ts"} THEN {"OSError"} ELSE {})

LoopPcs == {"read", "write_line", "check", "clock", "write_ts"}

\* ---- initial state: main has opened fh and the port, and enters the loop ----
Init ==
    /\ pc = "read"
    /\ pointMarker \in Markers
    /\ rx = <<>>
    /\ delivered = 0
    /\ line = <<>>
    /\ systime = 0
    /\ clock = 0
    /\ writes = <<>>
    /\ fhClosed = FALSE
    /\ stdout = <<"filename opened!">>
    /\ exc = "none"
    /\ lines = <<>>
    /\ ioSinceRead = 0

\* ---- environment ----

\* the device sends one more character to the port
Deliver ==
    /\ delivered < MaxStream
    /\ \E c \in Alphabet : rx' = Append(rx, c)
    /\ delivered' = delivered + 1
    /\ UNCHANGED <<pc, pointMarker, line, systime, clock, writes, fhClosed,
                   stdout, exc, lines, ioSinceRead>>

\* ---- forwardLine ----

\* line = sio.readline()
ReadLine ==
    /\ pc = "read"
    /\ Len(lines) < MaxIter
    /\ line' = readline(rx)
    /\ rx' = SubSeq(rx, Len(readline(rx)) + 1, Len(rx))
    /\ lines' = Append(lines, readline(rx))
    /\ ioSinceRead' = 0
    /\ pc' = "write_line"
    /\ UNCHANGED <<pointMarker, delivered, systime, clock, writes, fhClosed,
                   stdout, exc>>

\* fh.write(line.strip())
WriteLineStripped ==
    /\ pc = "write_line"
    /\ writes' = Append(writes,
                   [k |-> "line", s |-> SelectSeq(line, LAMBDA c : c # NL)])
    /\ ioSinceRead' = ioSinceRead + 1
    /\ pc' = "check"
    /\ UNCHANGED <<pointMarker, rx, delivered, line, systime, clock, fhClosed,
                   stdout, exc, lines>>

\* fh.write(line)
WriteLine ==
    /\ pc = "write_line"
    /\ writes' = Append(writes, [k |-> "line", s |-> line])
    /\ ioSinceRead' = ioSinceRead + 1
    /\ pc' = "check"
    /\ UNCHANGED <<pointMarker, rx, delivered, line, systime, clock, fhClosed,
                   stdout, exc, lines>>

\* if line.startswith(pointMarker):
CheckMarker ==
    /\ pc = "check"
    /\ pc' = IF startswith(line, pointMarker) THEN "clock" ELSE "read"
    /\ UNCHANGED <<pointMarker, rx, delivered, line, systime, clock, writes,
                   fhClosed, stdout, exc, lines, ioSinceRead>>

\* systime = time.clock_gettime_ns(time.CLOCK_MONOTONIC_RAW)
SampleClock ==
    /\ pc = "clock"
    /\ \E t \in clock..MaxClock : clock' = t /\ systime' = t
    /\ pc' = "write_ts"
    /\ UNCHANGED <<pointMarker, rx, delivered, line, writes, fhClosed,
                   stdout, exc, lines, ioSinceRead>>

\* fh.write("RPI_rx_ts_nanosec:" + str(systime))
WriteTimestamp ==
    /\ pc = "write_ts"
    /\ writes' = Append(writes, [k |-> "ts", s |-> TimestampRecord(systime)])
    /\ ioSinceRead' = ioSinceRead + 1
    /\ pc' = "read"
    /\ UNCHANGED <<pointMarker, rx, delivered, line, systime, clock, fhClosed,
                   stdout, exc, lines>>

\* ---- main: leaving the loop ----

\* an exception is raised inside the try block
Raise ==
    /\ pc \in LoopPcs
    /\ \E kind \in RaisedAt(pc) :
         /\ exc' = kind
         /\ pc' = IF HandlesException(kind) THEN "handler" ELSE "uncaught"
    /\ UNCHANGED <<pointMarker, rx, delivered, line, systime, clock, writes,
                   fhClosed, stdout, lines, ioSinceRead>>

\* except KeyboardInterrupt: fh.close()
CloseSink ==
    /\ pc = "handler"
    /\ fhClosed' = TRUE
    /\ pc' = "print_closed"
    /\ UNCHANGED <<pointMarker, rx, delivered, line, systime, clock, writes,
                   stdout, exc, lines, ioSinceRead>>

\* a handler placed inside the while loop: the loop goes on after it
PrintClosedContinue ==
    /\ pc = "print_closed"
    /\ stdout' = Append(stdout, "closed!")
    /\ pc' = "read"
    /\ UNCHANGED <<pointMarker, rx, delivered, line, systime, clock, writes,
                   fhClosed, exc, lines, ioSinceRead>>

\* print(filename + " closed!"), then main returns
PrintClosed ==
    /\ pc = "print_closed"
    /\ stdout' = Append(stdout, "closed!")
    /\ pc' = "done"
    /\ UNCHANGED <<pointMarker, rx, delivered, line, systime, clock, writes,
                   fhClosed, exc, lines, ioSinceRead>>

Next ==
    \/ Deliver
    \/ ReadLine
    \/ WriteLine
    \/ CheckMarker
    \/ SampleClock
    \/ WriteTimestamp
    \/ Raise
    \/ CloseSink
    \/ PrintClosed

Spec == Init /\ [][Next]_vars


\* ---- vocabulary of the properties ----

\* text s begins with text p
BeginsWith(s, p) == Len(p) <= Len(s) /\ SubSeq(s, 1, Len(p)) = p

RECURSIVE Flatten(_)
Flatten(ss) == IF ss = <<>> THEN <<>> ELSE Head(ss) \o Flatten(Tail(ss))

Texts(ws) == [i \in 1..Len(ws) |-> ws[i].s]
LineWrites == SelectSeq(writes, LAMBDA w : w.k = "line")
TsWrites == SelectSeq(writes, LAMBDA w : w.k = "ts")
\* the characters the file holds
SinkText == Flatten(Texts(writes))
MatchingLinesRead == {i \in 1..Len(lines) : BeginsWith(lines[i], pointMarker)}
EndsWithNL(s) == Len(s) > 0 /\ s[Len(s)] = NL

Mode ==
    IF pc \in LoopPcs THEN "RUNNING"
    ELSE IF pc \in {"handler", "print_closed", "done"} THEN "SHUTTING_DOWN"
    ELSE "TERMINATED_SINK_OPEN"

\* C1: after any number of completed forwardLine iterations the sink holds
\* every line read, verbatim and in the order read: the writes that are not
\* Timestamp Records are exactly the lines read so far, and so is their text;
\* inside an iteration at most the line just read is still missing.
C1_LinesVerbatimInOrder ==
    /\ pc = "read" =>
         /\ Texts(LineWrites) = lines
         /\ Flatten(Texts(LineWrites)) = Flatten(lines)
    /\ Len(LineWrites) <= Len(lines)
    /\ Len(lines) <= Len(LineWrites) + 1
    /\ \A i \in 1..Len(LineWrites) : LineWrites[i].s = lines[i]

C1_Witness ==
    /\ pc = "read"
    /\ Len(lines) >= 2
    /\ Len(TsWrites) >= 1
    /\ \E i \in 1..Len(lines) : EndsWithNL(lines[i])

\* C2 (as claimed): every written line that begins with the Marker is
\* directly followed by exactly one Timestamp Record, in every state in
\* which something was written after that line or the process has exited
\* after an interrupt ended the run.
C2_TimestampAfterEveryMarkerLine ==
    \A i \in 1..Len(writes) :
        ( /\ writes[i].k = "line"
          /\ BeginsWith(writes[i].s, pointMarker)
          /\ (i < Len(writes) \/ pc = "done") )
        => /\ i < Len(writes)
           /\ writes[i + 1].k = "ts"
           /\ (i + 1 < Len(writes) => writes[i + 2].k = "line")

\* C3: a line that does not begin with the Marker gets no Timestamp Record:
\* there are never more Timestamp Records than Marker-matching lines read,
\* and what follows a non-matching line in the sink is the next line read.
C3_NoTimestampForOtherLines ==
    /\ Len(TsWrites) <= Cardinality(MatchingLinesRead)
    /\ \A i \in 1..Len(writes) :
         (writes[i].k = "line" /\ ~BeginsWith(writes[i].s, pointMarker)
            /\ i < Len(writes))
         => writes[i + 1].k = "line"

C3_Witness ==
    /\ pointMarker # <<>>
    /\ \E i \in 1..Len(writes) :
         /\ i < Len(writes)
         /\ writes[i].k = "line"
         /\ writes[i].s # <<>>
         /\ ~BeginsWith(writes[i].s, pointMarker)
         /\ writes[i + 1].k = "line"
    /\ Len(TsWrites) >= 1

\* C4 (as claimed): every Timestamp Record in the sink is a line of its own:
\* RPI_rx_ts_nanosec: followed by an integer and ended by a line delimiter.
C4_TimestampRecordIsALine ==
    \A i \in 1..Len(writes) :
        writes[i].k = "ts" =>
            /\ writes[i].s[1] = TsPrefix
            /\ EndsWithNL(writes[i].s)

\* C5 (as claimed): when an interrupt ends the loop, the sink is closed
\* before the process exits and its content ends on a record boundary.
C5_InterruptLeavesWholeRecords ==
    pc = "done" =>
        /\ fhClosed
        /\ (SinkText = <<>> \/ EndsWithNL(SinkText))

\* C6: with an empty Marker every line read matches: after each completed
\* forwardLine iteration there are as many Timestamp Records as lines
\* forwarded, each line directly followed by its Timestamp Record.
C6_EmptyMarkerAnnotatesEveryLine ==
    (pointMarker = <<>> /\ pc = "read") =>
        /\ Len(TsWrites) = Len(LineWrites)
        /\ Len(LineWrites) = Len(lines)
        /\ \A i \in 1..Len(writes) :
             writes[i].k = "line" => (i < Len(writes) /\ writes[i + 1].k = "ts")

C6_Witness ==
    /\ pointMarker = <<>>
    /\ pc = "read"
    /\ Len(lines) >= 2
    /\ \E i \in 1..Len(lines) : lines[i] = <<>>
    /\ \E i \in 1..Len(lines) : lines[i] # <<>>

\* C7 (as claimed): the line read never returns empty or partial text, so
\* every string forwardLine writes as a line ends with a newline.
C7_OnlyCompleteLinesWritten ==
    \A i \in 1..Len(writes) : writes[i].k = "line" => EndsWithNL(writes[i].s)

\* C8 (as claimed): when the clock has been sampled for a line, nothing has
\* been written to the sink since the line read returned.
C8_ClockSampledBeforeAnyIO ==
    pc = "write_ts" => ioSinceRead = 0

\* C9 (as claimed): RUNNING and SHUTTING_DOWN are the only states; a state
\* in which the process has ended with the sink open is not reachable.
C9_OnlyTwoStates ==
    Mode \in {"RUNNING", "SHUTTING_DOWN"}

\* C9 (amended): RUNNING is left either by the interrupt, into
\* SHUTTING_DOWN, or by an uncaught fault, into termination with the sink
\* open; both are terminal, and once RUNNING is left no further line is read
\* and nothing further is written to the sink.
C9_LeavingRunningIsFinal ==
    [][ /\ (Mode = "RUNNING" /\ Mode' = "SHUTTING_DOWN")
            => exc' = "KeyboardInterrupt"
        /\ (Mode = "RUNNING" /\ Mode' = "TERMINATED_SINK_OPEN")
            => (exc' \notin {"none", "KeyboardInterrupt"} /\ ~fhClosed')
        /\ Mode # "RUNNING"
            => /\ Mode' = Mode
               /\ writes' = writes
               /\ lines' = lines
               /\ line' = line ]_vars

C9_Witness ==
    /\ pc = "done"
    /\ fhClosed
    /\ rx # <<>>
    /\ Len(writes) >= 1

\* C10: a fault other than the operator interrupt is not handled: it ends
\* the process without the controlled shutdown (the sink is not closed, the
\* close confirmation is not printed) and leaves the sink content as it was.
C10_FaultsAreNotHandled ==
    /\ [](exc \notin {"none", "KeyboardInterrupt"}
            => /\ pc = "uncaught"
               /\ ~fhClosed
               /\ stdout = <<"filename opened!">>)
    /\ [][pc' = "uncaught" => writes' = writes]_vars

C10_Witness ==
    /\ pc = "uncaught"
    /\ exc = "OSError"
    /\ Len(writes) >= 1
    /\ ~fhClosed

====
